---- MODULE Spec2Model ----
(***************************************************************************)
(* A model of the OHLC fetch-and-store pipeline:                           *)
(*   nifty_ohlc_fetcher.py        the fetch stage (StockDataFetcher)       *)
(*   send_new_data_to_postgre.py  the load stage (the Loader)              *)
(*   fetchNplaceData.py           the orchestrator (main_pipeline)         *)
(* The file system (artifact files and sidecar files of the output         *)
(* folder), the stock_data table and the position of each of the three     *)
(* processes are the state.                                                *)
(***************************************************************************)
EXTENDS Integers, Sequences, FiniteSets, TLC

VARIABLES
    sink,            \* artifact files of the output folder: path -> file
    sidecar,         \* sidecar files of the output folder: path -> file
    dirOrder,        \* the order in which the folder lists its entries
    db,              \* committed content of stock_data (a heap of rows)
    tx,              \* stock_data as the Loader's open transaction sees it
    lpc,             \* Loader: "idle", "loop", "commit", "done", "failed"
    csv_files,       \* Loader: main's csv_files
    fileIdx,         \* Loader: position of main's for loop in csv_files
    processed_count, \* Loader: main's processed_count
    lerr,            \* Loader: the exception that ended the run, or "none"
    reported,        \* Loader: the counts of the final message, or <<>>
    dbAtStart,       \* history: stock_data when the current Loader run began
    prevDone,        \* history: stock_data when the previous run completed
    resumeBase,      \* history: stock_data before the interrupted run(s)
    usedSymbol,      \* history: stock_symbol_to_use of the latest insert
    symbols,         \* Fetcher: self.symbols, pairs <<symbol, exchange>>
    fpc,             \* Fetcher: "idle", "run", "done", "failed"
    batchIdx,        \* Fetcher: position of run's outer loop (1-based)
    posIdx,          \* Fetcher: position of run's inner loop in the batch
    attempted,       \* history: the fetches of this run and their results
    lastAnswer,      \* history: the provider's answer to the latest fetch
    opc,             \* Orchestrator: "idle", "fetch", "load", "done", "exit1"
    fetchResult,     \* history: how this run's fetch stage ended
    loadStarted,     \* history: this run started the load stage
    nifty_file,      \* the symbol list nifty_500_symbols.txt
    sp500_file,      \* the symbol list sp500_symbols.txt
    now,             \* the wall clock: what datetime.now() returns
    past_days,       \* the days-back offset run is called with
    provider,        \* the answers the data provider can give to a request
    base_date_for_run, \* Fetcher: run's base_date_for_run
    log,             \* history: the requests and pauses of this fetch run
    lastWritten,     \* history: per artifact, the bars of the latest write
    lout             \* Loader: the lines the latest step printed

loaderVars == <<db, tx, lpc, csv_files, fileIdx, processed_count, lerr,
                reported, dbAtStart, prevDone, resumeBase, usedSymbol, lout>>
fsVars == <<sink, sidecar, dirOrder, lastWritten>>
fetchVars == <<symbols, fpc, batchIdx, posIdx, attempted, lastAnswer,
               base_date_for_run, log>>
orchVars == <<opc, fetchResult, loadStarted>>
envVars == <<nifty_file, sp500_file, now, past_days, provider>>

----------------------------------------------------------------------------
(* Bounds of the model                                                     *)

MaxTs == 2     \* wall-clock minutes of a bar: 1..MaxTs
MaxRows == 2   \* bars held by the artifacts of the folder, in total
MaxSyms == 2   \* symbols of the universe
MaxBack == 1   \* the days-back offset: 0..MaxBack
MaxLines == 2  \* lines of a symbol list
MaxBatches == 2 \* full batches of the longest universe

NoTable == <<[stock_symbol |-> "-", date_time |-> 0, val |-> <<"-", 0>>,
              stock_exchange |-> "-"]>>   \* "no table recorded" (history)

----------------------------------------------------------------------------
(* Strings and paths                                                       *)

DATA_DIR == "nifty_500_data"
CSV_SUFFIX == "_daily_ohlc.csv"
INFO_SUFFIX == "_info.json"

\* str.replace(old, new): every non-overlapping occurrence, left to right
RECURSIVE Replace(_, _, _)
Replace(s, old, new) ==
    IF Len(s) < Len(old) THEN s
    ELSE IF SubSeq(s, 1, Len(old)) = old
         THEN new \o Replace(SubSeq(s, Len(old) + 1, Len(s)), old, new)
         ELSE SubSeq(s, 1, 1) \o Replace(SubSeq(s, 2, Len(s)), old, new)

\* os.path.basename: what follows the last "/"
Basename(p) ==
    LET slashes == {i \in 1..Len(p) : SubSeq(p, i, i) = "/"}
    IN  IF slashes = {} THEN p
        ELSE LET last == CHOOSE i \in slashes : \A j \in slashes : j <= i
             IN  SubSeq(p, last + 1, Len(p))

\* os.path.join(data_dir, name)
PathJoin(dir, name) == dir \o "/" \o name

ArtifactPath(stem) == PathJoin(DATA_DIR, stem \o CSV_SUFFIX)
SidecarPath(stem) == PathJoin(DATA_DIR, stem \o INFO_SUFFIX)

\* extract_stock_symbol
extract_stock_symbol(file_path) == Replace(Basename(file_path), CSV_SUFFIX, "")

\* the glob pattern "*_daily_ohlc.csv" of get_csv_files
MatchesCsvPattern(name) ==
    /\ Len(name) >= Len(CSV_SUFFIX)
    /\ SubSeq(name, Len(name) - Len(CSV_SUFFIX) + 1, Len(name)) = CSV_SUFFIX

----------------------------------------------------------------------------
(* Files                                                                   *)

Stems == {"A.NS", "B"}
ArtifactPaths == {ArtifactPath(s) : s \in Stems}
SidecarPaths == {SidecarPath(s) : s \in Stems}
FolderEntries == ArtifactPaths \cup SidecarPaths

NoFile == [kind |-> "absent", hasDatetime |-> FALSE, exch |-> "-", rows |-> <<>>]
GarbageFile == [kind |-> "garbage", hasDatetime |-> FALSE, exch |-> "-", rows |-> <<>>]
CsvFile(hasDt, exch, rows) ==
    [kind |-> "csv", hasDatetime |-> hasDt, exch |-> exch, rows |-> rows]

\* a sidecar: absent, not JSON at all, JSON that is no object (a list, a
\* string, a number), or a JSON object with or without descriptive_symbol
NoSidecar == [kind |-> "absent", hasDesc |-> FALSE, desc |-> "-"]
BadJsonSidecar == [kind |-> "badjson", hasDesc |-> FALSE, desc |-> "-"]
NonObjectSidecar == [kind |-> "nonobject", hasDesc |-> FALSE, desc |-> "-"]
EmptyObjectSidecar == [kind |-> "object", hasDesc |-> FALSE, desc |-> "-"]
DescSidecar(d) == [kind |-> "object", hasDesc |-> TRUE, desc |-> d]

----------------------------------------------------------------------------
(* The Loader: send_new_data_to_postgre.py                                 *)

\* the folder's listing: the artifacts in dirOrder, then the sidecars
SidecarListing ==
    CHOOSE q \in [1..Cardinality(SidecarPaths) -> SidecarPaths] :
        \A p \in SidecarPaths : \E i \in DOMAIN q : q[i] = p
FolderListing == dirOrder \o SidecarListing

Exists(p) == IF p \in ArtifactPaths THEN sink[p].kind # "absent"
             ELSE sidecar[p].kind # "absent"

\* get_csv_files: glob of "*_daily_ohlc.csv" in the folder, in listing order
GlobMatches == {p \in FolderEntries : MatchesCsvPattern(Basename(p))}
IsListedCsv(p) == Exists(p) /\ p \in GlobMatches
get_csv_files == SelectSeq(FolderListing, IsListedCsv)

\* pd.to_datetime of one Datetime cell: the instant the text denotes
to_datetime(row) == row.wall - row.off

\* clean_dataframe and prepare_data_for_insert: the batch of table rows
clean_dataframe(file, stock_symbol) ==
    [i \in 1..Len(file.rows) |->
        [stock_symbol |-> stock_symbol,
         date_time |-> to_datetime(file.rows[i]),
         val |-> file.rows[i].val,
         stock_exchange |-> IF file.exch = "-" THEN "NULL" ELSE file.exch]]

\* a conflict target of date_time alone
SameInstant(r1, r2) == r1.date_time = r2.date_time

\* the conflict target (stock_symbol, date_time) of insert_stock_data
SameKey(r1, r2) ==
    r1.stock_symbol = r2.stock_symbol /\ r1.date_time = r2.date_time
HasKey(table, r) == \E i \in 1..Len(table) : SameKey(table[i], r)

\* a plain INSERT, without the ON CONFLICT clause, into an unconstrained table
RECURSIVE insert_plain(_, _)
insert_plain(table, data) ==
    IF data = <<>> THEN table
    ELSE insert_plain(Append(table, Head(data)), Tail(data))

\* INSERT ... ON CONFLICT (stock_symbol, date_time) DO UPDATE
RECURSIVE insert_do_update(_, _)
insert_do_update(table, data) ==
    IF data = <<>> THEN table
    ELSE LET r == Head(data)
             t == IF HasKey(table, r)
                  THEN [i \in 1..Len(table) |->
                           IF SameKey(table[i], r) THEN r ELSE table[i]]
                  ELSE Append(table, r)
         IN  insert_do_update(t, Tail(data))

\* insert_stock_data: INSERT ... ON CONFLICT (stock_symbol, date_time) DO NOTHING,
\* row by row in the order of the batch
RECURSIVE insert_stock_data(_, _)
insert_stock_data(table, data) ==
    IF data = <<>> THEN table
    ELSE LET r == Head(data)
         IN  insert_stock_data(IF HasKey(table, r) THEN table ELSE Append(table, r),
                               Tail(data))

\* extract_stock_symbol(file_path) and file_path.replace('_daily_ohlc.csv',
\* '_info.json'), tabulated over the artifact paths of the folder
BaseSymbolOf == [p \in ArtifactPaths |-> extract_stock_symbol(p)]
InfoPathOf == [p \in ArtifactPaths |-> Replace(p, CSV_SUFFIX, INFO_SUFFIX)]

\* the identity block of process_single_file (lines 83-97): the symbol to
\* store under, or the exception that escapes it
ResolveSymbol(file_path) ==
    LET base_symbol == BaseSymbolOf[file_path]
        info_file_path == InfoPathOf[file_path]
        sc == IF info_file_path \in DOMAIN sidecar THEN sidecar[info_file_path]
              ELSE NoSidecar
    IN  CASE sc.kind = "absent" -> [raised |-> "none", symbol |-> base_symbol]
          [] sc.kind = "badjson" -> [raised |-> "none", symbol |-> base_symbol]
          [] sc.kind = "nonobject" -> [raised |-> "AttributeError", symbol |-> base_symbol]
          [] OTHER -> [raised |-> "none",
                       symbol |-> IF sc.hasDesc THEN sc.desc ELSE base_symbol]

Raise(err, table) ==
    [ret |-> FALSE, raised |-> err, table |-> table, symbol |-> "-",
     out |-> <<"Traceback">>]

\* the warning of the except clause of the identity block (line 96)
SidecarWarning(file_path) ==
    IF sidecar[InfoPathOf[file_path]].kind = "badjson"
    THEN <<"Could not read or parse">> ELSE <<>>

\* a process_single_file that raises on an artifact without rows
process_raises_on_empty(file_path, table, insertOutcome) ==
    LET id == ResolveSymbol(file_path)
        file == sink[file_path]
    IN  IF id.raised # "none" THEN Raise(id.raised, table)
        ELSE IF file.kind # "csv" \/ file.rows = <<>> THEN Raise("EmptyDataError", table)
        ELSE IF ~file.hasDatetime THEN Raise("KeyError", table)
        ELSE IF insertOutcome = "rejected" THEN Raise("DatabaseError", table)
        ELSE [ret |-> TRUE, raised |-> "none",
              table |-> insert_stock_data(table, clean_dataframe(file, id.symbol)),
              symbol |-> id.symbol,
              out |-> SidecarWarning(file_path) \o <<"Inserted data">>]

\* process_single_file(file_path, cursor); insertOutcome is the storage
\* engine's answer to the statement: "ok" or "rejected"
process_single_file(file_path, table, insertOutcome) ==
    LET id == ResolveSymbol(file_path)
        file == sink[file_path]
    IN  IF id.raised # "none" THEN Raise(id.raised, table)
        ELSE IF file.kind # "csv" THEN Raise("EmptyDataError", table)
        ELSE IF file.rows = <<>>
             THEN [ret |-> FALSE, raised |-> "none", table |-> table, symbol |-> "-",
                   out |-> SidecarWarning(file_path) \o <<"Empty file">>]
        ELSE IF ~file.hasDatetime THEN Raise("KeyError", table)
        ELSE IF insertOutcome = "rejected" THEN Raise("DatabaseError", table)
        ELSE [ret |-> TRUE, raised |-> "none",
              table |-> insert_stock_data(table, clean_dataframe(file, id.symbol)),
              symbol |-> id.symbol,
              out |-> SidecarWarning(file_path) \o <<"Inserted data">>]

\* a close that makes the open transaction durable
CloseCommits(committed, working) == working

\* conn.close() of the finally block: stock_data once the connection is
\* closed; the open transaction is rolled back
CloseConnection(committed, working) == committed

\* the exception leaves main through the finally block
LoaderFails(err, startTable) ==
    /\ lpc' = "failed"
    /\ lerr' = err
    /\ db' = CloseConnection(db, tx)
    /\ tx' = db'
    /\ resumeBase' = IF resumeBase = NoTable THEN startTable ELSE resumeBase
    /\ usedSymbol' = "-"
    /\ lout' = <<"Traceback">>
    /\ UNCHANGED <<processed_count, reported>>

\* main, up to the for loop: connect_to_db, get_csv_files
LoaderBegin(connected) ==
    /\ dbAtStart' = db
    /\ prevDone' = IF lpc = "done" THEN db ELSE NoTable
    /\ fileIdx' = 1
    /\ UNCHANGED fsVars
    /\ IF connected
       THEN /\ csv_files' = get_csv_files
            /\ processed_count' = 0
            /\ tx' = db
            /\ lpc' = "loop"
            /\ lerr' = "none"
            /\ reported' = <<>>
            /\ usedSymbol' = "-"
            /\ lout' = <<>>
            /\ resumeBase' = IF lpc = "done" THEN NoTable ELSE resumeBase
            /\ UNCHANGED db
       ELSE /\ csv_files' = <<>>
            /\ LoaderFails("OperationalError", db)

\* the Loader started on its own: python send_new_data_to_postgre.py
LoaderStart ==
    /\ lpc \in {"idle", "done", "failed"}
    /\ opc = "idle"
    /\ \E connected \in BOOLEAN : LoaderBegin(connected)
    /\ UNCHANGED <<fetchVars, orchVars, envVars>>

\* one pass of the for loop up to conn.commit(): process_single_file
ProcessFile ==
    /\ lpc = "loop"
    /\ fileIdx <= Len(csv_files)
    /\ \E insertOutcome \in {"ok", "rejected"} :
          LET r == process_single_file(csv_files[fileIdx], tx, insertOutcome)
          IN  IF r.raised # "none"
              THEN /\ LoaderFails(r.raised, dbAtStart)
                   /\ UNCHANGED <<csv_files, fileIdx, dbAtStart, prevDone>>
              ELSE /\ tx' = r.table
                   /\ processed_count' = processed_count + (IF r.ret THEN 1 ELSE 0)
                   /\ usedSymbol' = r.symbol
                   /\ lout' = r.out
                   /\ lpc' = "commit"
                   /\ UNCHANGED <<db, csv_files, fileIdx, lerr, reported,
                                  dbAtStart, prevDone, resumeBase>>
    /\ UNCHANGED <<fsVars, fetchVars, orchVars, envVars>>

\* conn.commit() at the end of the pass
CommitFile ==
    /\ lpc = "commit"
    /\ db' = tx
    /\ fileIdx' = fileIdx + 1
    /\ lpc' = "loop"
    /\ lout' = <<>>
    /\ UNCHANGED <<tx, csv_files, processed_count, lerr, reported, dbAtStart,
                   prevDone, resumeBase, usedSymbol>>
    /\ UNCHANGED <<fsVars, fetchVars, orchVars, envVars>>

\* after the loop: the final message, then the finally block
LoaderFinish ==
    /\ lpc = "loop"
    /\ fileIdx > Len(csv_files)
    /\ reported' = <<processed_count, Len(csv_files)>>
    /\ lout' = <<"Successfully processed">>
    /\ lpc' = "done"
    /\ db' = CloseConnection(db, tx)
    /\ tx' = db'
    /\ usedSymbol' = "-"
    /\ UNCHANGED <<csv_files, fileIdx, processed_count, lerr, dbAtStart,
                   prevDone, resumeBase>>
    /\ UNCHANGED <<fsVars, fetchVars, orchVars, envVars>>

\* the Loader's process is interrupted (killed, connection lost) in the loop
LoaderCrash ==
    /\ lpc \in {"loop", "commit"}
    /\ LoaderFails("Interrupted", dbAtStart)
    /\ UNCHANGED <<csv_files, fileIdx, dbAtStart, prevDone>>
    /\ UNCHANGED <<fsVars, fetchVars, orchVars, envVars>>

----------------------------------------------------------------------------
(* The Loader run on its own over a folder of artifacts                    *)

vars == <<sink, sidecar, dirOrder, db, tx, lpc, csv_files, fileIdx,
          processed_count, lerr, reported, dbAtStart, prevDone, resumeBase,
          usedSymbol, symbols, fpc, batchIdx, posIdx, attempted, lastAnswer,
          opc, fetchResult, loadStarted, nifty_file, sp500_file, now,
          past_days, provider, base_date_for_run, log, lastWritten, lout>>

Idents == Stems \cup {"D"}

\* the exchange tag the fetch stage gives a symbol of this name
ExchangeOfStem(stem) ==
    IF Len(stem) >= 3 /\ SubSeq(stem, Len(stem) - 2, Len(stem)) = ".NS"
    THEN "NSE" ELSE "SnP"

WallSeqs == UNION {[1..n -> 1..MaxTs] : n \in 0..MaxRows}

\* the bars of an artifact: each bar carries its own payload
Bars(stem, walls, off) ==
    [i \in 1..Len(walls) |-> [wall |-> walls[i], off |-> off, val |-> <<stem, i>>]]

TotalRows(files) ==
    LET RECURSIVE Sum(_)
        Sum(S) == IF S = {} THEN 0
                  ELSE LET p == CHOOSE p \in S : TRUE
                       IN  Len(files[p].rows) + Sum(S \ {p})
    IN  Sum(DOMAIN files)

Orderings(S) ==
    {q \in [1..Cardinality(S) -> S] : \A p \in S : \E i \in DOMAIN q : q[i] = p}

OldRow(s, t) ==
    [stock_symbol |-> s, date_time |-> t, val |-> <<"old", 0>>, stock_exchange |-> "NULL"]
InitTables == {<<>>} \cup {<<OldRow(s, t)>> : s \in Idents, t \in 1..MaxTs}

\* A datetime is a day number of the proleptic Gregorian calendar and a
\* minute of that day; the text of a date ('%Y-%m-%d') is its year, month
\* and day.
\* datetime: the day number of a year, month and day
ymd2ord(y, m, d) ==
    LET yy == IF m <= 2 THEN y - 1 ELSE y
        era == yy \div 400
        yoe == yy - era * 400
        mp == IF m > 2 THEN m - 3 ELSE m + 9
        doy == (153 * mp + 2) \div 5 + d - 1
        doe == yoe * 365 + yoe \div 4 - yoe \div 100 + doy
    IN  era * 146097 + doe

\* datetime: the year, month and day of a day number
ord2ymd(n) ==
    LET era == n \div 146097
        doe == n - era * 146097
        yoe == (doe - doe \div 1460 + doe \div 36524 - doe \div 146096) \div 365
        doy == doe - (365 * yoe + yoe \div 4 - yoe \div 100)
        mp == (5 * doy + 2) \div 153
        d == doy - (153 * mp + 2) \div 5 + 1
        m == IF mp < 10 THEN mp + 3 ELSE mp - 9
    IN  <<yoe + era * 400 + (IF m <= 2 THEN 1 ELSE 0), m, d>>

NoDate == [day |-> 0, minute |-> 0]

\* the days on which the fetch stage is run, and the days its dates can
\* fall on; ord2ymd and ymd2ord tabulated over them
RunDays == {ymd2ord(2024, 1, 1), ymd2ord(2024, 1, 10), ymd2ord(2024, 3, 1)}
Calendar == {d - k : d \in RunDays, k \in (0 - 1)..(MaxBack + 2)}
DateText == [n \in Calendar |-> ord2ymd(n)]
DayOfText == [t \in {DateText[n] : n \in Calendar} |-> ymd2ord(t[1], t[2], t[3])]

LoaderIdle ==
    /\ tx = db
    /\ lpc = "idle"
    /\ csv_files = <<>>
    /\ fileIdx = 1
    /\ processed_count = 0
    /\ lerr = "none"
    /\ reported = <<>>
    /\ lout = <<>>
    /\ dbAtStart = db
    /\ prevDone = NoTable
    /\ resumeBase = NoTable
    /\ usedSymbol = "-"

FetcherIdle ==
    /\ fpc = "idle"
    /\ batchIdx = 1
    /\ posIdx = 1
    /\ attempted = <<>>
    /\ lastAnswer = "-"
    /\ base_date_for_run = NoDate
    /\ log = <<>>

OrchestratorIdle ==
    /\ opc = "idle"
    /\ fetchResult = "none"
    /\ loadStarted = FALSE

\* What the provider answers to one ticker.history call: an exception, an
\* empty frame (also for a symbol it does not know), or the first n minute
\* bars of the exchange's day, with a zone-less index in exchange time or a
\* zone-carrying index in UTC.
ProviderOutcomes ==
    {[kind |-> k, tz |-> "-", n |-> 0] : k \in {"exception", "empty"}}
        \cup {[kind |-> "bars", tz |-> z, n |-> n] :
                  z \in {"naive", "aware"}, n \in 1..MaxTs}

\* a symbol list: a file of lines, or no file
MissingFile == [exists |-> FALSE, lines |-> <<>>]
TextFile(lines) == [exists |-> TRUE, lines |-> lines]

\* no symbol lists beside the Loader
NoSources ==
    /\ nifty_file = MissingFile
    /\ sp500_file = MissingFile

\* the fetch stage as __main__ runs it (past_days=0) on one given day, with
\* a provider that can give every answer
PlainRun ==
    /\ now = [day |-> ymd2ord(2024, 1, 10), minute |-> 600]
    /\ past_days = 0
    /\ provider = ProviderOutcomes

LoadInit ==
    /\ symbols = <<>>
    /\ FetcherIdle
    /\ OrchestratorIdle
    /\ \E files \in [Stems -> {GarbageFile} \cup
                        {CsvFile(TRUE, "-", w) : w \in WallSeqs}] :
          /\ TotalRows(files) <= MaxRows
          /\ sink = [p \in ArtifactPaths |->
                        LET stem == BaseSymbolOf[p]
                            f == files[stem]
                        IN  IF f.kind = "csv"
                            THEN CsvFile(TRUE, ExchangeOfStem(stem), Bars(stem, f.rows, 0))
                            ELSE f]
    /\ sidecar \in [SidecarPaths -> {NoSidecar, DescSidecar("D")}]
    /\ dirOrder \in Orderings(ArtifactPaths)
    /\ lastWritten = [p \in ArtifactPaths |-> sink[p].rows]
    /\ db \in InitTables
    /\ LoaderIdle
    /\ NoSources
    /\ PlainRun

LoadNext ==
    \/ LoaderStart
    \/ ProcessFile
    \/ CommitFile
    \/ LoaderFinish
    \/ LoaderCrash

LoadSpec == LoadInit /\ [][LoadNext]_vars

----------------------------------------------------------------------------
(* Properties of the Loader                                                *)

\* stock_data after the first n files of the list were loaded and committed
RECURSIVE LoadPrefix(_, _, _)
LoadPrefix(table, files, n) ==
    IF n = 0 THEN table
    ELSE process_single_file(files[n], LoadPrefix(table, files, n - 1), "ok").table

IsPrefix(s, t) == Len(s) <= Len(t) /\ \A i \in 1..Len(s) : t[i] = s[i]
FromArtifact(r) == r.val[1] # "old"

\* C1: a Loader run that follows a completed Loader run over the same
\* artifacts leaves stock_data exactly as the first run left it: it adds no row.
C1_LoaderIdempotent == prevDone # NoTable => db = prevDone

C1_Witness ==
    /\ lpc = "done"
    /\ prevDone # NoTable
    /\ processed_count > 0
    /\ \E i \in 1..Len(db) : FromArtifact(db[i])

\* C3: when a Loader run fails while handling the artifact at position
\* fileIdx, stock_data holds exactly what loading the fileIdx - 1 artifacts
\* before it gives, and nothing of that artifact or of a later one.
C3_PerArtifactDurability ==
    lpc = "failed" => db = LoadPrefix(dbAtStart, csv_files, fileIdx - 1)

C3_Witness ==
    /\ lpc = "failed"
    /\ fileIdx = 2
    /\ Len(csv_files) = 2
    /\ db # dbAtStart
    /\ process_single_file(csv_files[2], db, "ok").table # db

\* C4: a Loader run that completes after interrupted runs over the same
\* artifacts leaves stock_data as one uninterrupted run from the table
\* before the interruption would have left it.
C4_SafeResume ==
    (lpc = "done" /\ resumeBase # NoTable)
        => db = LoadPrefix(resumeBase, csv_files, Len(csv_files))

C4_Witness ==
    /\ lpc = "done"
    /\ resumeBase # NoTable
    /\ dbAtStart # resumeBase
    /\ db # dbAtStart

\* C5: no two rows of stock_data, committed or in the open transaction,
\* have the same (stock_symbol, date_time).
KeysUnique(table) ==
    \A i, j \in 1..Len(table) : i # j => ~SameKey(table[i], table[j])
C5_KeyUnique == KeysUnique(db) /\ KeysUnique(tx)

C5_Witness ==
    /\ lpc = "done"
    /\ processed_count = 2
    /\ Len(db) = 1
    /\ FromArtifact(db[1])

\* C6: every step keeps every stored row as it is, and an insert adds, for
\* every key of the batch that was not stored, the first row of the batch
\* with that key, and nothing else.
InsertStep == lpc = "loop" /\ lpc' = "commit" /\ processed_count' = processed_count + 1
BatchOf(path, symbol) == clean_dataframe(sink[path], symbol)
InsertedAsClaimed(before, after, data) ==
    /\ IsPrefix(before, after)
    /\ \A k \in 1..Len(data) : HasKey(after, data[k])
    /\ \A i \in (Len(before) + 1)..Len(after) :
          /\ ~HasKey(before, after[i])
          /\ \E k \in 1..Len(data) :
                /\ data[k] = after[i]
                /\ \A m \in 1..(k - 1) : ~SameKey(data[m], data[k])
C6_ConflictDoNothing ==
    [][/\ IsPrefix(db, db')
       /\ InsertStep =>
            InsertedAsClaimed(tx, tx', BatchOf(csv_files[fileIdx], usedSymbol'))]_vars

C6_Witness ==
    /\ lpc = "commit"
    /\ usedSymbol # "-"
    /\ Len(tx) > Len(db)
    /\ \E i \in 1..Len(db) : \E k \in 1..Len(BatchOf(csv_files[fileIdx], usedSymbol)) :
          /\ SameKey(db[i], BatchOf(csv_files[fileIdx], usedSymbol)[k])
          /\ db[i].val # BatchOf(csv_files[fileIdx], usedSymbol)[k].val

\* C7: a failure of one artifact never ends the Loader's run with a failure.
ArtifactErrors == {"AttributeError", "EmptyDataError", "KeyError", "DatabaseError"}
C7_ArtifactFailureAbsorbed == lpc = "failed" => lerr \notin ArtifactErrors

----------------------------------------------------------------------------
(* The fetch stage: nifty_ohlc_fetcher.py                                  *)

batch_size == 20

\* the entries the symbol lists can contribute: (ticker + suffix, exchange)
Registry == {<<"A.NS", "NSE">>, <<"B", "SnP">>}
SymbolNames == {e[1] : e \in Registry}

\* _load_all_symbols gives nifty_symbols + sp500_symbols: NSE entries first
Universes ==
    {u \in UNION {[1..n -> Registry] : n \in 0..MaxSyms} :
        \A i, j \in DOMAIN u : (i < j) => ~(u[i][2] = "SnP" /\ u[j][2] = "NSE")}

Min(a, b) == IF a <= b THEN a ELSE b

\* a partition into batches of one symbol less
short_batches ==
    [b \in 1..((Len(symbols) + batch_size - 2) \div (batch_size - 1)) |->
        SubSeq(symbols, (b - 1) * (batch_size - 1) + 1,
               Min(b * (batch_size - 1), Len(symbols)))]

\* symbol_batches of run: self.symbols[i:i + batch_size] for i in range(0, len, batch_size)
symbol_batches ==
    [b \in 1..((Len(symbols) + batch_size - 1) \div batch_size) |->
        SubSeq(symbols, (b - 1) * batch_size + 1, Min(b * batch_size, Len(symbols)))]

\* str.strip(): leading and trailing whitespace removed
IsSpace(c) == c \in {" ", "\n", "\t", "\r"}
RECURSIVE Strip(_)
Strip(s) ==
    IF Len(s) = 0 THEN s
    ELSE IF IsSpace(SubSeq(s, 1, 1)) THEN Strip(SubSeq(s, 2, Len(s)))
    ELSE IF IsSpace(SubSeq(s, Len(s), Len(s))) THEN Strip(SubSeq(s, 1, Len(s) - 1))
    ELSE s

\* a test of the line after the whitespace around it is removed
StartsWithStripped(s, prefix) ==
    /\ Len(Strip(s)) >= Len(prefix)
    /\ SubSeq(Strip(s), 1, Len(prefix)) = prefix

\* str.startswith
StartsWith(s, prefix) ==
    /\ Len(s) >= Len(prefix)
    /\ SubSeq(s, 1, Len(prefix)) = prefix

\* _load_symbols_from_file: the kept lines, stripped, with the suffix, each
\* tagged with the exchange; nothing for a file that does not exist
load_symbols_from_file(file, exchange_name, suffix) ==
    IF ~file.exists THEN <<>>
    ELSE LET Kept(line) == Strip(line) # "" /\ ~StartsWith(line, "#")
             syms == SelectSeq(file.lines, Kept)
         IN  [i \in 1..Len(syms) |-> <<Strip(syms[i]) \o suffix, exchange_name>>]

\* _load_all_symbols
load_all_symbols ==
    load_symbols_from_file(nifty_file, "NSE", ".NS")
        \o load_symbols_from_file(sp500_file, "SnP", "")

\* the symbol lists that give a universe: one plain line per entry
SourceLine(entry) ==
    (IF entry[2] = "NSE" THEN SubSeq(entry[1], 1, Len(entry[1]) - 3) ELSE entry[1])
        \o "\n"
SourceOf(u, exchange_name) ==
    LET OfExchange(entry) == entry[2] = exchange_name
        es == SelectSeq(u, OfExchange)
    IN  TextFile([i \in 1..Len(es) |-> SourceLine(es[i])])

\* _sanitize_filename_component
sanitize_filename_component(text) == Strip(Replace(text, "/", "-"))

\* ohlc_file_path of run, tabulated over the symbols of the registry
OutPathOf ==
    [s \in SymbolNames |->
        PathJoin(DATA_DIR, sanitize_filename_component(s) \o CSV_SUFFIX)]

EndsWith(s, suffix) ==
    /\ Len(s) >= Len(suffix)
    /\ SubSeq(s, Len(s) - Len(suffix) + 1, Len(s)) = suffix

\* the zone fetch_ohlc_data gives the index of a ticker
ExchangeZone(ticker) ==
    IF EndsWith(ticker, ".NS") THEN "Asia/Kolkata" ELSE "America/New_York"

\* minutes east of UTC (standard time)
UtcOffset(zone) ==
    CASE zone = "Asia/Kolkata" -> 330
      [] zone = "America/New_York" -> -300
      [] OTHER -> 0

\* index.tz_localize(zone): the wall-clock value is kept
tz_localize(stamp, zone) == [wall |-> stamp, off |-> UtcOffset(zone)]
\* index.tz_convert(zone): the instant is kept
tz_convert(instant, zone) ==
    [wall |-> instant + UtcOffset(zone), off |-> UtcOffset(zone)]

\* dt - timedelta(days=n) and dt + timedelta(days=n)
minus_days(dt, n) == [day |-> dt.day - n, minute |-> dt.minute]
plus_days(dt, n) == [day |-> dt.day + n, minute |-> dt.minute]
\* dt.strftime('%Y-%m-%d'): the time of day is dropped
strftime(dt) == DateText[dt.day]
\* datetime.strptime(text, '%Y-%m-%d'): midnight of that date
strptime(text) == [day |-> DayOfText[text], minute |-> 0]

\* a reference date that is shifted back for every exchange
ref_date_shifted(base, exchange) == minus_days(base, 1)

\* effective_ref_date of run (line 82)
effective_ref_date(base, exchange) ==
    IF exchange = "SnP" THEN minus_days(base, 1) ELSE base

\* symbol_start_date_str and symbol_end_date_str of run (lines 83-85)
symbol_dates(base, exchange, days_back) ==
    LET target_date_for_fetch == minus_days(effective_ref_date(base, exchange), days_back)
        symbol_start_date_str == strftime(target_date_for_fetch)
    IN  [start |-> symbol_start_date_str, end |-> symbol_start_date_str]

\* the start and end that fetch_ohlc_data gives ticker_obj.history (lines 35-40)
history_window(start_date_str, end_date_str) ==
    IF start_date_str = end_date_str
    THEN [start |-> start_date_str,
          end |-> strftime(plus_days(strptime(start_date_str), 1))]
    ELSE [start |-> start_date_str, end |-> end_date_str]

\* the calls run makes to the outside: provider requests and pauses
Request(ticker, window) ==
    [op |-> "history", ticker |-> ticker, start |-> window.start,
     end |-> window.end, secs |-> 0]
Sleep(secs) ==
    [op |-> "sleep", ticker |-> "-", start |-> <<>>, end |-> <<>>, secs |-> secs]

\* a pause before every batch, the first included
PauseBeforeEveryBatch(i) == TRUE

\* "if i > 0: time.sleep(5)" of run; i counts the batches from 0
InterBatchPause(i) == i > 0

RawIndex(outcome, zone) ==
    [i \in 1..outcome.n |->
        IF outcome.tz = "naive" THEN i ELSE i - UtcOffset(zone)]

NoData == [raised |-> FALSE, isNone |-> TRUE, rows |-> <<>>]

\* lines 45-56 of fetch_ohlc_data: the frame with its index in the zone of
\* the ticker's exchange, localized if zone-less and converted otherwise
Normalized(ticker, outcome) ==
    LET zone == ExchangeZone(ticker)
        raw == RawIndex(outcome, zone)
    IN  [raised |-> FALSE, isNone |-> FALSE,
         rows |-> [i \in 1..Len(raw) |->
                     [wall |-> (IF outcome.tz = "naive"
                                THEN tz_localize(raw[i], zone)
                                ELSE tz_convert(raw[i], zone)).wall,
                      off |-> UtcOffset(zone),
                      val |-> <<ticker, i>>]]]

\* fetch_ohlc_data without its except clause: the provider's exception escapes
fetch_no_except(ticker, outcome) ==
    IF outcome.kind = "exception"
    THEN [raised |-> TRUE, isNone |-> TRUE, rows |-> <<>>]
    ELSE IF outcome.kind = "empty" THEN NoData
    ELSE Normalized(ticker, outcome)

\* fetch_ohlc_data: None on an exception (the bare except) and on an empty
\* frame, else the normalized frame
fetch_ohlc_data(ticker, outcome) ==
    IF outcome.kind = "exception" THEN NoData
    ELSE IF outcome.kind = "empty" THEN NoData
    ELSE Normalized(ticker, outcome)

\* a write that appends to the file that is there
to_csv_append(old, exchange, data) ==
    CsvFile(TRUE, exchange, (IF old.kind = "csv" THEN old.rows ELSE <<>>) \o data.rows)

\* ohlc_data['stock_exchange'] = exchange and ohlc_data.to_csv(ohlc_file_path)
\* (lines 92, 95): the file that replaces the one at the path
to_csv(old, exchange, data) == CsvFile(TRUE, exchange, data.rows)

\* a write for every fetch, also one that gave nothing
WritesAlways(data) == TRUE

\* "if ohlc_data is not None" of run
WritesArtifact(data) == ~data.isNone

\* __init__ and the head of run: the symbols are loaded, the loops begin
FetchBegin ==
    /\ fpc' = "run"
    /\ batchIdx' = 1
    /\ posIdx' = 1
    /\ attempted' = <<>>
    /\ lastAnswer' = "-"
    /\ symbols' = load_all_symbols
    /\ base_date_for_run' = now
    /\ log' = <<>>

\* the fetch stage started on its own: python nifty_ohlc_fetcher.py
FetcherStart ==
    /\ fpc \in {"idle", "done", "failed"}
    /\ opc = "idle"
    /\ FetchBegin
    /\ UNCHANGED <<fsVars, loaderVars, orchVars, envVars>>

\* one pass of the inner loop of run: fetch, write, pause
FetchOne ==
    /\ fpc = "run"
    /\ batchIdx <= Len(symbol_batches)
    /\ LET batch_of_symbols == symbol_batches[batchIdx]
           symbol == batch_of_symbols[posIdx][1]
           exchange == batch_of_symbols[posIdx][2]
           dates == symbol_dates(base_date_for_run, exchange, past_days)
           calls == (IF posIdx = 1 /\ InterBatchPause(batchIdx - 1)
                     THEN <<Sleep(5)>> ELSE <<>>)
                    \o <<Request(symbol, history_window(dates.start, dates.end))>>
       IN  \E outcome \in provider :
             LET ohlc_data == fetch_ohlc_data(symbol, outcome)
             IN  IF ohlc_data.raised
                 THEN /\ fpc' = "failed"
                      /\ lastAnswer' = outcome.kind
                      /\ log' = log \o calls
                      /\ UNCHANGED <<sink, lastWritten, batchIdx, posIdx, attempted>>
                 ELSE /\ sink' = IF WritesArtifact(ohlc_data)
                                 THEN [sink EXCEPT ![OutPathOf[symbol]] =
                                          to_csv(@, exchange, ohlc_data)]
                                 ELSE sink
                      /\ lastWritten' =
                            IF WritesArtifact(ohlc_data)
                            THEN [lastWritten EXCEPT ![OutPathOf[symbol]] = ohlc_data.rows]
                            ELSE lastWritten
                      /\ log' = log \o calls \o <<Sleep(1)>>
                      /\ attempted' = Append(attempted,
                             [symbol |-> symbol,
                              result |-> IF ohlc_data.isNone THEN "miss" ELSE "written"])
                      /\ lastAnswer' = outcome.kind
                      /\ IF posIdx < Len(batch_of_symbols)
                         THEN posIdx' = posIdx + 1 /\ batchIdx' = batchIdx
                         ELSE posIdx' = 1 /\ batchIdx' = batchIdx + 1
                      /\ fpc' = "run"
    /\ UNCHANGED <<symbols, base_date_for_run, sidecar, dirOrder, loaderVars,
                   orchVars, envVars>>

\* the end of run: "Processing complete!"
FetchDone ==
    /\ fpc = "run"
    /\ batchIdx > Len(symbol_batches)
    /\ fpc' = "done"
    /\ UNCHANGED <<symbols, batchIdx, posIdx, attempted, lastAnswer,
                   base_date_for_run, log, fsVars, loaderVars, orchVars, envVars>>

EmptyFolder ==
    /\ sink = [p \in ArtifactPaths |-> NoFile]
    /\ sidecar = [p \in SidecarPaths |-> NoSidecar]
    /\ dirOrder \in Orderings(ArtifactPaths)
    /\ lastWritten = [p \in ArtifactPaths |-> <<>>]

\* the symbol lists hold one of the universes
PlainSources ==
    \E u \in Universes :
        /\ nifty_file = SourceOf(u, "NSE")
        /\ sp500_file = SourceOf(u, "SnP")

FetchInit ==
    /\ symbols = <<>>
    /\ PlainSources
    /\ PlainRun
    /\ EmptyFolder
    /\ db = <<>>
    /\ LoaderIdle
    /\ FetcherIdle
    /\ OrchestratorIdle

FetchNext ==
    \/ FetcherStart
    \/ FetchOne
    \/ FetchDone

\* the loops of run are taken to their end once the run has begun
FetchSpec ==
    /\ FetchInit
    /\ [][FetchNext]_vars
    /\ WF_vars(FetchOne)
    /\ WF_vars(FetchDone)

----------------------------------------------------------------------------
(* Properties of the fetch stage                                           *)

FetchedSymbols == [i \in 1..Len(attempted) |-> attempted[i].symbol]
UniverseSymbols == [i \in 1..Len(symbols) |-> symbols[i][1]]
MissStep ==
    /\ Len(attempted') = Len(attempted) + 1
    /\ attempted'[Len(attempted')].result = "miss"

\* C8: whatever the provider answers, symbol by symbol, the run of the fetch
\* stage never aborts, a fetch that failed or gave nothing writes nothing,
\* the completed run has attempted every symbol of the universe in order,
\* and a run that has begun completes.
C8_FetchFailuresAbsorbed ==
    /\ [](fpc # "failed")
    /\ [](fpc = "done" => FetchedSymbols = UniverseSymbols)
    /\ [][MissStep => sink' = sink]_vars
    /\ (fpc = "run" ~> fpc = "done")

C8_Witness ==
    /\ fpc = "done"
    /\ lastAnswer = "exception"
    /\ Len(attempted) = 2
    /\ attempted[1].result = "written"
    /\ attempted[2].result = "miss"
    /\ sink[OutPathOf[attempted[1].symbol]].kind = "csv"
    /\ sink[OutPathOf[attempted[2].symbol]].kind = "absent"

----------------------------------------------------------------------------
(* The orchestrator: fetchNplaceData.py                                    *)

\* run_script: True when the child process ran and ended with exit code 0,
\* False on a child that cannot be started or ends with another code
run_script(started, childpc) == started /\ childpc = "done"

\* a pipeline that goes on to the load stage whatever the fetch stage gave
ProceedsAlways(ok) == TRUE

\* "if not run_script(...): sys.exit(1)" of main_pipeline
Proceeds(ok) == ok

\* main_pipeline up to the start of the fetch stage's process; the processes
\* of an earlier run are gone, and with them their variables
PipelineStart ==
    /\ opc \in {"idle", "done", "exit1"}
    /\ lpc \in {"idle", "done", "failed"}
    /\ fpc \in {"idle", "done", "failed"}
    /\ loadStarted' = FALSE
    /\ tx' = db
    /\ lpc' = "idle"
    /\ csv_files' = <<>>
    /\ fileIdx' = 1
    /\ processed_count' = 0
    /\ lerr' = "none"
    /\ reported' = <<>>
    /\ lout' = <<>>
    /\ dbAtStart' = db
    /\ prevDone' = NoTable
    /\ resumeBase' = NoTable
    /\ usedSymbol' = "-"
    /\ \E started \in BOOLEAN :
          IF started
          THEN /\ FetchBegin
               /\ opc' = "fetch"
               /\ fetchResult' = "none"
          ELSE /\ fpc' = "idle"
               /\ batchIdx' = 1
               /\ posIdx' = 1
               /\ attempted' = <<>>
               /\ lastAnswer' = "-"
               /\ symbols' = <<>>
               /\ base_date_for_run' = NoDate
               /\ log' = <<>>
               /\ fetchResult' = "nostart"
               /\ opc' = IF Proceeds(run_script(FALSE, "idle")) THEN "load" ELSE "exit1"
    /\ UNCHANGED <<fsVars, db, envVars>>

\* the fetch stage's process dies in the loops of run (killed, a write to
\* the folder fails)
FetchAbort ==
    /\ fpc = "run"
    /\ opc = "fetch"
    /\ fpc' = "failed"
    /\ UNCHANGED <<symbols, batchIdx, posIdx, attempted, lastAnswer,
                   base_date_for_run, log, fsVars, loaderVars, orchVars, envVars>>

\* main_pipeline from the return of the first run_script to the start of the
\* load stage's process, or to sys.exit(1)
FetchReturn ==
    /\ opc = "fetch"
    /\ fpc \in {"done", "failed"}
    /\ fetchResult' = IF fpc = "done" THEN "ok" ELSE "failed"
    /\ IF Proceeds(run_script(TRUE, fpc))
       THEN \E started \in BOOLEAN :
              IF started
              THEN /\ \E connected \in BOOLEAN : LoaderBegin(connected)
                   /\ loadStarted' = TRUE
                   /\ opc' = "load"
              ELSE /\ opc' = "exit1"
                   /\ UNCHANGED <<loadStarted, loaderVars, fsVars>>
       ELSE /\ opc' = "exit1"
            /\ UNCHANGED <<loadStarted, loaderVars, fsVars>>
    /\ lastAnswer' = "-"
    /\ UNCHANGED <<symbols, fpc, batchIdx, posIdx, attempted, base_date_for_run,
                   log, envVars>>

\* main_pipeline from the return of the second run_script to its end
LoadReturn ==
    /\ opc = "load"
    /\ lpc \in {"done", "failed"}
    /\ opc' = IF Proceeds(run_script(TRUE, lpc)) THEN "done" ELSE "exit1"
    /\ UNCHANGED <<fetchResult, loadStarted, fetchVars, loaderVars, fsVars, envVars>>

\* before the first run the folder is empty (no stage writes a sidecar)
PipeInit ==
    /\ symbols = <<>>
    /\ PlainSources
    /\ PlainRun
    /\ sink = [p \in ArtifactPaths |-> NoFile]
    /\ sidecar = [p \in SidecarPaths |-> NoSidecar]
    /\ dirOrder \in Orderings(ArtifactPaths)
    /\ lastWritten = [p \in ArtifactPaths |-> <<>>]
    /\ db = <<>>
    /\ LoaderIdle
    /\ FetcherIdle
    /\ OrchestratorIdle

PipeNext ==
    \/ PipelineStart
    \/ FetchOne
    \/ FetchDone
    \/ FetchAbort
    \/ FetchReturn
    \/ ProcessFile
    \/ CommitFile
    \/ LoaderFinish
    \/ LoaderCrash
    \/ LoadReturn

PipeSpec == PipeInit /\ [][PipeNext]_vars

----------------------------------------------------------------------------
(* Properties of the pipeline                                              *)

\* C2: the load stage runs only in a pipeline run whose fetch stage has
\* ended with success, and only after it; a fetch stage that did not start
\* or that failed leaves the load stage unstarted.
C2_LoadOnlyAfterFetch ==
    /\ loadStarted => fetchResult = "ok"
    /\ lpc # "idle" => (loadStarted /\ fpc = "done" /\ opc \in {"load", "done", "exit1"})
    /\ fetchResult \in {"nostart", "failed"} => (lpc = "idle" /\ opc = "exit1")

C2_Witness ==
    /\ opc = "exit1"
    /\ fetchResult = "failed"
    /\ attempted # <<>>
    /\ lpc = "idle"

\* the symbols whose fetch, in this run, failed or gave nothing (every
\* fetch of the symbol, if the universe names it twice)
Missed ==
    {attempted[i].symbol : i \in {k \in 1..Len(attempted) : attempted[k].result = "miss"}}
        \ {attempted[i].symbol :
               i \in {k \in 1..Len(attempted) : attempted[k].result = "written"}}
\* the rows this run's load stage has stored under a symbol
RowsAddedFor(s) == {i \in (Len(dbAtStart) + 1)..Len(db) : db[i].stock_symbol = s}
\* the artifacts of the folder that are stored under a symbol
ArtifactsOf(s) ==
    {p \in ArtifactPaths : sink[p].kind # "absent" /\ ResolveSymbol(p).symbol = s}

\* C10 as stated: after the fetch stage of a run, a symbol whose fetch failed
\* or gave nothing has no artifact in the folder, and the load stage of the
\* run stores no row for it.
C10_NoArtifactNoRows ==
    fetchResult = "ok" =>
        \A s \in Missed :
            /\ sink[OutPathOf[s]].kind = "absent"
            /\ loadStarted => RowsAddedFor(s) = {}

\* C10 as amended: a fetch that failed or gave nothing leaves the folder as
\* it was, and the load stage of the run stores no row for its symbol unless
\* the folder holds an artifact that is stored under that symbol.
C10_MissWritesNothing ==
    /\ [][MissStep => sink' = sink]_vars
    /\ [](\A s \in Missed :
            (fetchResult = "ok" /\ loadStarted /\ ArtifactsOf(s) = {})
                => RowsAddedFor(s) = {})

C10_Witness ==
    /\ opc = "done"
    /\ Len(db) > Len(dbAtStart)
    /\ \E s \in Missed : ArtifactsOf(s) = {} /\ RowsAddedFor(s) = {}

----------------------------------------------------------------------------
(* The Loader over folders with sidecars of every kind                     *)

IdentInit ==
    /\ symbols = <<>>
    /\ FetcherIdle
    /\ OrchestratorIdle
    /\ sink \in [ArtifactPaths ->
                    {GarbageFile, CsvFile(TRUE, "-", <<>>),
                     CsvFile(FALSE, "-", Bars("x", <<1>>, 0)),
                     CsvFile(TRUE, "-", Bars("x", <<1>>, 0))}]
    /\ sidecar \in [SidecarPaths ->
                       {NoSidecar, BadJsonSidecar, NonObjectSidecar,
                        EmptyObjectSidecar, DescSidecar("D")}]
    /\ dirOrder \in Orderings(ArtifactPaths)
    /\ lastWritten = [p \in ArtifactPaths |-> sink[p].rows]
    /\ db = <<>>
    /\ LoaderIdle
    /\ NoSources
    /\ PlainRun

IdentSpec == IdentInit /\ [][LoadNext]_vars

\* the identity the claim gives an artifact
ClaimedIdentity(file_path) ==
    LET sc == sidecar[InfoPathOf[file_path]]
    IN  IF sc.kind = "object" /\ sc.hasDesc THEN sc.desc ELSE BaseSymbolOf[file_path]

\* the rows of an artifact are stored under the identity the claim gives it
StoredUnderClaimedIdentity ==
    (lpc = "commit" /\ usedSymbol # "-") => usedSymbol = ClaimedIdentity(csv_files[fileIdx])

\* C9: the rows of an artifact are stored under the sidecar's
\* descriptive_symbol when the sidecar has one and under the base symbol
\* otherwise, and no sidecar makes the load of its artifact fail.
C9_IdentityWithFallback ==
    /\ StoredUnderClaimedIdentity
    /\ lpc = "failed" => lerr # "AttributeError"

----------------------------------------------------------------------------
(* The fetch stage over symbol lists whose tickers may carry any suffix    *)

\* the files of at most n lines, each taken from a set of lines
FilesOver(lines, n) == {TextFile(l) : l \in UNION {[1..k -> lines] : k \in 0..n}}

\* sp500_symbols.txt may list a ticker that ends with ".NS"
TzInit ==
    /\ symbols = <<>>
    /\ nifty_file \in FilesOver({"A\n"}, MaxSyms)
    /\ sp500_file \in FilesOver({"B\n", "A.NS\n"}, MaxSyms)
    /\ Len(nifty_file.lines) + Len(sp500_file.lines) <= MaxSyms
    /\ PlainRun
    /\ EmptyFolder
    /\ db = <<>>
    /\ LoaderIdle
    /\ FetcherIdle
    /\ OrchestratorIdle

TzSpec == TzInit /\ [][FetchNext]_vars

\* the canonical zone of an exchange tag
CanonicalZone(tag) == IF tag = "NSE" THEN "Asia/Kolkata" ELSE "America/New_York"

\* the bars of every artifact are in the zone of the artifact's exchange tag
TagZoneAgree ==
    \A p \in ArtifactPaths :
        sink[p].kind = "csv" =>
            \A i \in 1..Len(sink[p].rows) :
                sink[p].rows[i].off = UtcOffset(CanonicalZone(sink[p].exch))

\* a zone-less index keeps its wall-clock values, a zone-carrying index
\* keeps its instants
LocalizedOrConverted ==
    \A ticker \in SymbolNames :
        \A outcome \in {o \in ProviderOutcomes : o.kind = "bars"} :
            LET raw == RawIndex(outcome, ExchangeZone(ticker))
                rows == fetch_ohlc_data(ticker, outcome).rows
            IN  /\ Len(rows) = Len(raw)
                /\ \A i \in 1..Len(raw) :
                      IF outcome.tz = "naive"
                      THEN rows[i].wall = raw[i]
                      ELSE rows[i].wall - rows[i].off = raw[i]

\* C11: every bar of an artifact carries the zone of the exchange of the
\* artifact's stock_exchange tag; a zone-less raw timestamp was localized
\* to it and a zone-carrying one converted to it.
C11_ArtifactZone == TagZoneAgree /\ LocalizedOrConverted

----------------------------------------------------------------------------
(* The symbol registry over symbol lists of every kind                     *)

\* a ticker, a ticker with blanks around it, an empty line, a line of
\* blanks, a comment, a line with a "#" after a blank
RegLines == {"A\n", " B \n", "\n", "  \n", "#A\n", " #B\n"}

RegInit ==
    /\ symbols = <<>>
    /\ nifty_file \in {MissingFile} \cup FilesOver(RegLines, MaxLines)
    /\ sp500_file \in {MissingFile} \cup FilesOver(RegLines, MaxLines)
    /\ PlainRun
    /\ EmptyFolder
    /\ db = <<>>
    /\ LoaderIdle
    /\ FetcherIdle
    /\ OrchestratorIdle

RegNext == FetcherStart

RegSpec == RegInit /\ [][RegNext]_vars

\* the text of a line between its first and its last character that is
\* not whitespace
Trimmed(line) ==
    LET idx == {i \in 1..Len(line) : ~IsSpace(SubSeq(line, i, i))}
    IN  IF idx = {} THEN ""
        ELSE SubSeq(line, CHOOSE i \in idx : \A j \in idx : i <= j,
                          CHOOSE i \in idx : \A j \in idx : j <= i)

\* what a symbol list contributes: nothing when the file is missing, else
\* one entry for every line that is not blank and does not begin with "#"
RECURSIVE Contribution(_, _, _)
Contribution(lines, tag, suffix) ==
    IF lines = <<>> THEN <<>>
    ELSE LET line == Head(lines)
             rest == Contribution(Tail(lines), tag, suffix)
         IN  IF Trimmed(line) = "" \/ SubSeq(line, 1, 1) = "#" THEN rest
             ELSE <<<<Trimmed(line) \o suffix, tag>>>> \o rest
ExpectedUniverse ==
    (IF nifty_file.exists THEN Contribution(nifty_file.lines, "NSE", ".NS") ELSE <<>>)
        \o (IF sp500_file.exists THEN Contribution(sp500_file.lines, "SnP", "") ELSE <<>>)

\* C15: the loaded universe is the tickers of the primary list, each with
\* the suffix and the primary tag, followed by the tickers of the secondary
\* list with the secondary tag, in file order with duplicates kept; blank
\* lines and lines beginning with "#" give nothing, and a missing list gives
\* nothing and stops nothing.
C15_Registry == fpc # "idle" => (fpc = "run" /\ symbols = ExpectedUniverse)

C15_Witness ==
    /\ fpc = "run"
    /\ ~nifty_file.exists
    /\ sp500_file.lines = <<"#A\n", " B \n">>
    /\ symbols = <<<<"B", "SnP">>>>

----------------------------------------------------------------------------
(* The fetch stage over universes of one and of several batches, run at    *)
(* different times with different days-back offsets                        *)

\* the lengths around the multiples of the batch size
RunLengths ==
    {n \in 0..(MaxBatches * batch_size + 1) :
        \E b \in 0..MaxBatches : n - b * batch_size \in {0 - 1, 0, 1}}

\* the first day of a year at midnight, a day in a month, the day after a
\* leap day in the last minute of the day
RunTimes ==
    {[day |-> ymd2ord(2024, 1, 1), minute |-> 0],
     [day |-> ymd2ord(2024, 1, 10), minute |-> 600],
     [day |-> ymd2ord(2024, 3, 1), minute |-> 1439]}

\* a provider that gives the same answer to every request; every answer
\* for a universe that is short
RunProviders(n) ==
    {{o} : o \in {[kind |-> "exception", tz |-> "-", n |-> 0],
                  [kind |-> "empty", tz |-> "-", n |-> 0],
                  [kind |-> "bars", tz |-> "naive", n |-> 1]}}
        \cup (IF n <= MaxSyms THEN {ProviderOutcomes} ELSE {})

RunInit ==
    /\ symbols = <<>>
    /\ \E n \in RunLengths : \E j \in {0, n \div 2, n} :
          /\ nifty_file = TextFile([i \in 1..j |-> "A\n"])
          /\ sp500_file = TextFile([i \in 1..(n - j) |-> "B\n"])
          /\ provider \in RunProviders(n)
    /\ now \in RunTimes
    /\ past_days \in 0..MaxBack
    /\ sink = [p \in ArtifactPaths |-> NoFile]
    /\ sidecar = [p \in SidecarPaths |-> NoSidecar]
    /\ dirOrder = <<ArtifactPath("A.NS"), ArtifactPath("B")>>
    /\ lastWritten = [p \in ArtifactPaths |-> <<>>]
    /\ db = <<>>
    /\ LoaderIdle
    /\ FetcherIdle
    /\ OrchestratorIdle

RunSpec ==
    /\ RunInit
    /\ [][FetchNext]_vars
    /\ WF_vars(FetchOne)
    /\ WF_vars(FetchDone)

\* the calendar: the day before and the day after a date
IsLeap(y) == (y % 4 = 0 /\ y % 100 # 0) \/ y % 400 = 0
DaysIn(y, m) ==
    IF m = 2 THEN (IF IsLeap(y) THEN 29 ELSE 28)
    ELSE IF m \in {4, 6, 9, 11} THEN 30 ELSE 31
NextDay(t) ==
    IF t[3] < DaysIn(t[1], t[2]) THEN <<t[1], t[2], t[3] + 1>>
    ELSE IF t[2] < 12 THEN <<t[1], t[2] + 1, 1>>
    ELSE <<t[1] + 1, 1, 1>>
PrevDay(t) ==
    IF t[3] > 1 THEN <<t[1], t[2], t[3] - 1>>
    ELSE IF t[2] > 1 THEN <<t[1], t[2] - 1, DaysIn(t[1], t[2] - 1)>>
    ELSE <<t[1] - 1, 12, 31>>
RECURSIVE DaysBack(_, _)
DaysBack(t, n) == IF n = 0 THEN t ELSE DaysBack(PrevDay(t), n - 1)

IsRequest(call) == call.op = "history"
Requests == SelectSeq(log, IsRequest)

\* C12: the j-th request of a run is for the j-th symbol of the universe,
\* from D to the day after D, D being the date of the run's start time less
\* the days-back offset, and less one more day for the secondary exchange.
C12_FetchWindow ==
    /\ fpc # "idle" => base_date_for_run = now
    /\ Len(Requests) <= Len(symbols)
    /\ \A j \in 1..Len(Requests) :
          LET D == DaysBack(DateText[base_date_for_run.day],
                            past_days + (IF symbols[j][2] = "SnP" THEN 1 ELSE 0))
          IN  /\ Requests[j].ticker = symbols[j][1]
              /\ Requests[j].start = D
              /\ Requests[j].end = NextDay(D)

C12_Witness ==
    /\ fpc = "done"
    /\ past_days = 1
    /\ now.minute = 1439
    /\ \E i, j \in 1..Len(Requests) :
          /\ Requests[i].ticker = "A.NS"
          /\ Requests[i].start = <<2024, 2, 29>>
          /\ Requests[i].end = <<2024, 3, 1>>
          /\ Requests[j].ticker = "B"
          /\ Requests[j].start = <<2024, 2, 28>>
          /\ Requests[j].end = <<2024, 2, 29>>

\* the kinds of the calls of a run, in order
CallKinds ==
    [i \in 1..Len(log) |->
        IF log[i].op = "history" THEN "fetch"
        ELSE IF log[i].secs = 1 THEN "symbol pause"
        ELSE IF log[i].secs = 5 THEN "batch pause"
        ELSE "other"]

\* the calls of m fetches as the pacing rule orders them: a batch pause
\* before the first fetch of every batch but the first, a symbol pause
\* after every fetch
RECURSIVE PacedCalls(_)
PacedCalls(m) ==
    IF m = 0 THEN <<>>
    ELSE PacedCalls(m - 1)
            \o (IF m > 1 /\ (m - 1) % batch_size = 0 THEN <<"batch pause">> ELSE <<>>)
            \o <<"fetch", "symbol pause">>

\* C13: the calls of a fetch run are its fetches, each followed by exactly
\* one symbol pause, with exactly one batch pause between the symbol pause
\* that ends a batch and the first fetch of the next batch, and none before
\* the first batch; so a pause lies between any two requests.
C13_PacingOrder ==
    /\ CallKinds = PacedCalls(Len(attempted))
    /\ \A i \in 1..(Len(log) - 1) : ~(IsRequest(log[i]) /\ IsRequest(log[i + 1]))

C13_Witness ==
    /\ fpc = "done"
    /\ Len(symbols) = 2 * batch_size + 1
    /\ lastAnswer = "exception"
    /\ Len(log) = 2 * Len(symbols) + 2
    /\ log[2 * batch_size + 1] = Sleep(5)

RECURSIVE Concat(_)
Concat(seqs) == IF seqs = <<>> THEN <<>> ELSE Head(seqs) \o Concat(Tail(seqs))

BatchesPartition ==
    LET n == Len(symbols)
        k == Len(symbol_batches)
    IN  /\ k = (IF n % 20 = 0 THEN n \div 20 ELSE n \div 20 + 1)
        /\ \A b \in 1..(k - 1) : Len(symbol_batches[b]) = 20
        /\ k > 0 => Len(symbol_batches[k]) \in 1..20
        /\ Concat(symbol_batches) = symbols

\* the fetches so far are the first symbols of the universe, in order, one
\* fetch for each, and the loops stand at the next symbol
FetchedInOrder ==
    LET m == Len(attempted)
    IN  /\ m <= Len(symbols)
        /\ FetchedSymbols = SubSeq(UniverseSymbols, 1, m)
        /\ Len(Requests) = m
        /\ (fpc = "run" /\ batchIdx <= Len(symbol_batches))
              => m = (batchIdx - 1) * 20 + (posIdx - 1)
        /\ (fpc = "done" \/ batchIdx > Len(symbol_batches)) => m = Len(symbols)

\* C19: the batches are ceil(n/20), all of 20 symbols but possibly the
\* last, and their concatenation is the universe; the symbols are fetched
\* one after another in that order, each occurrence once, and the run ends
\* after n fetches (none for an empty universe).
C19_BatchPartition ==
    /\ [](fpc # "idle" => (BatchesPartition /\ FetchedInOrder))
    /\ (fpc = "run" ~> fpc = "done")

C19_Witness ==
    /\ fpc = "done"
    /\ Len(symbols) = 2 * batch_size + 1
    /\ Len(symbol_batches) = 3
    /\ Len(symbol_batches[3]) = 1
    /\ Len(attempted) = Len(symbols)

----------------------------------------------------------------------------
(* The outcome of a pipeline run                                           *)

\* C14: main_pipeline reaches its final message only when the fetch stage
\* and then the load stage ran and each ended with success; when a stage
\* did not start or failed, the run ends with exit code 1.
C14_RunOutcome ==
    /\ opc = "done" =>
          (fetchResult = "ok" /\ fpc = "done" /\ loadStarted /\ lpc = "done")
    /\ (fetchResult \in {"nostart", "failed"} \/ lpc = "failed")
          => opc \in {"load", "exit1"}
    /\ opc = "load" => (fetchResult = "ok" /\ loadStarted)

C14_Witness ==
    /\ opc = "exit1"
    /\ fetchResult = "ok"
    /\ loadStarted
    /\ lpc = "failed"
    /\ lerr = "DatabaseError"
    /\ processed_count = 1

----------------------------------------------------------------------------
(* Artifacts without rows                                                  *)

\* the artifact parses and holds no row
IsEmptyArtifact(file_path) ==
    sink[file_path].kind = "csv" /\ sink[file_path].rows = <<>>

\* the pass of the loop that reads an artifact without rows (the step is
\* the Loader's own: its process is not killed in it)
EmptyArtifactStep ==
    /\ lpc = "loop"
    /\ fileIdx <= Len(csv_files)
    /\ IsEmptyArtifact(csv_files[fileIdx])
    /\ ResolveSymbol(csv_files[fileIdx]).raised = "none"
    /\ lpc' # lpc
    /\ ~(lpc' = "failed" /\ lerr' = "Interrupted")

\* C16: the pass that reads an artifact without rows stores nothing, counts
\* nothing, prints "Empty file" and goes on to the commit and to the next
\* artifact; a run that completes has counted the artifacts with rows only
\* and has loaded every one of them.
C16_EmptyArtifactSkipped ==
    /\ [][EmptyArtifactStep =>
            /\ tx' = tx
            /\ db' = db
            /\ processed_count' = processed_count
            /\ \E i \in 1..Len(lout') : lout'[i] = "Empty file"
            /\ lpc' = "commit"]_vars
    /\ [][(lpc = "commit" /\ lpc' = "loop") => (db' = tx /\ fileIdx' = fileIdx + 1)]_vars
    /\ [](lpc = "done" =>
            /\ processed_count =
                  Cardinality({i \in 1..Len(csv_files) : ~IsEmptyArtifact(csv_files[i])})
            /\ db = LoadPrefix(dbAtStart, csv_files, Len(csv_files)))

C16_Witness ==
    /\ lpc = "done"
    /\ Len(csv_files) = 2
    /\ IsEmptyArtifact(csv_files[1])
    /\ ~IsEmptyArtifact(csv_files[2])
    /\ reported = <<1, 2>>
    /\ Len(db) = 1
    /\ Len(dbAtStart) = 0

----------------------------------------------------------------------------
(* The artifacts over several fetch runs                                   *)

\* an artifact holds exactly the bars of the latest write to its name, and
\* there is none where nothing was written
HoldsLatestWrite ==
    \A p \in ArtifactPaths :
        IF lastWritten[p] = <<>> THEN sink[p].kind = "absent"
        ELSE sink[p].kind = "csv" /\ sink[p].rows = lastWritten[p]

\* every artifact is the one of the sanitized name of a symbol of the universe
OnePerName ==
    \A p \in ArtifactPaths :
        sink[p].kind # "absent" =>
            \E i \in 1..Len(symbols) :
                p = PathJoin(DATA_DIR,
                        sanitize_filename_component(symbols[i][1]) \o CSV_SUFFIX)

\* a step changes an artifact only by a fetch that gave bars for its symbol
OnlyFetchedChange ==
    \A p \in ArtifactPaths :
        sink'[p] # sink[p] =>
            /\ Len(attempted') = Len(attempted) + 1
            /\ attempted'[Len(attempted')].result = "written"
            /\ OutPathOf[attempted'[Len(attempted')].symbol] = p
            /\ lastAnswer' = "bars"

\* C17: after any number of fetch runs the folder holds at most one
\* artifact per sanitized symbol name, with exactly the bars of the latest
\* fetch that gave bars for that name, and a run changes no artifact but
\* those of the symbols whose fetch gave bars.
C17_ArtifactOverwrite ==
    /\ [](HoldsLatestWrite /\ OnePerName)
    /\ [][OnlyFetchedChange]_vars

C17_Witness ==
    /\ fpc = "done"
    /\ Len(attempted) = 2
    /\ attempted[1] = [symbol |-> "B", result |-> "written"]
    /\ attempted[2] = [symbol |-> "B", result |-> "written"]
    /\ Len(sink[OutPathOf["B"]].rows) = 1
    /\ sink[OutPathOf["A.NS"]].kind = "absent"

----------------------------------------------------------------------------
(* The counts the Loader reports                                           *)

\* the artifacts whose rows were submitted and committed in this run
CommittedArtifacts ==
    {i \in 1..Len(csv_files) : i < fileIdx /\ ~IsEmptyArtifact(csv_files[i])}

ReportIsRight ==
    /\ reported = <<Cardinality(CommittedArtifacts), Len(csv_files)>>
    /\ reported[1] <= reported[2]

\* a Loader that completed has reported the right counts
ReportedOnCompletion == lpc = "done" => ReportIsRight

\* C18: a Loader that has stopped, normally or by a failure, has reported
\* the number of artifacts it stored and committed and the number it found.
C18_ReportedCounts == lpc \in {"done", "failed"} => ReportIsRight

----------------------------------------------------------------------------
(* The order in which the Loader takes the artifacts                       *)

RowSet(table) == {table[i] : i \in 1..Len(table)}
FileSet(files) == {files[i] : i \in 1..Len(files)}

\* no two artifacts of the list are stored under the same stock_symbol
DistinctIdentities ==
    \A i, j \in 1..Len(csv_files) :
        i # j => ResolveSymbol(csv_files[i]).symbol # ResolveSymbol(csv_files[j]).symbol

\* C20: when no two artifacts are stored under the same stock_symbol, the
\* rows of stock_data after a complete Loader run are those that a load of
\* the same artifacts in any other order gives.
C20_OrderIndependent ==
    (lpc = "done" /\ DistinctIdentities) =>
        \A q \in Orderings(FileSet(csv_files)) :
            RowSet(LoadPrefix(dbAtStart, q, Len(q))) = RowSet(db)

C20_Witness ==
    /\ lpc = "done"
    /\ DistinctIdentities
    /\ Len(csv_files) = 2
    /\ processed_count = 2
    /\ \E i, j \in 1..Len(db) :
          /\ FromArtifact(db[i]) /\ FromArtifact(db[j])
          /\ db[i].stock_symbol # db[j].stock_symbol
          /\ db[i].date_time = db[j].date_time

====
